---- MODULE Spec2Model ----
(***************************************************************************)
(* A model of the CalcsLive plug for FreeCAD:                              *)
(*   - the plug server (calcslive-freecad-plug-server.py): the request     *)
(*     handlers working on the active document, the handler threads of     *)
(*     the ThreadingHTTPServer, and plug_in / unplug / _run_server;        *)
(*   - SyncEngine.sync_with_calcslive (core/SyncEngine.py), called from    *)
(*     the UI thread and from the auto-sync worker.                        *)
(*                                                                         *)
(* FreeCAD itself is the environment.  What the model assumes of it:       *)
(*   - a property holds a Quantity, a float, a str or None (a link);       *)
(*     assigning a value of the wrong Python type raises;                  *)
(*   - an expression bound to a property is re-evaluated by                *)
(*     Document.recompute(); expressions here copy another property of     *)
(*     the same object;                                                    *)
(*   - getExpression(prop) is None for a property without expression and   *)
(*     raises for a name that is no property.                              *)
(* Values are small integers; unit conversion is not modelled (every       *)
(* quantity is given in the base unit of its dimension).                   *)
(***************************************************************************)
EXTENDS Integers, Sequences, FiniteSets, TLC

VARIABLES
    doc,              \* App.ActiveDocument
    last,             \* the request executed last, its response and effects
    lastStored,       \* the data the last set_pq_mappings assigned
    lastMapOK,        \* the data of the POST /calcslive/mapping answered 200 last
    handlers,         \* the handler threads of the ThreadingHTTPServer
    threads,          \* the threads started by plug_in, running _run_server
    server_thread,    \* the global _server_thread
    httpd,            \* the global _httpd
    servers,          \* the ThreadingHTTPServer objects, one per thread
    port,             \* who holds 127.0.0.1:8787
    caller,           \* the thread calling plug_in / unplug
    is_syncing,       \* SyncEngine.is_syncing
    sync,             \* the threads calling SyncEngine.sync_with_calcslive
    client,           \* whether SyncEngine.client is set
    auto_sync_enabled, \* SyncEngine.auto_sync_enabled
    recent_articles,  \* ConfigManager.config_data['recent_articles']
    now,              \* the time FreeCAD.now() gives
    config_call,      \* the ConfigManager call made last
    mapper            \* test_unit_mapper: the unit mapped and what came of it

vars == <<doc, last, lastStored, lastMapOK, handlers, threads, server_thread,
          httpd, servers, port, caller, is_syncing, sync, client,
          auto_sync_enabled, recent_articles, now, config_call, mapper>>

plugVars == <<threads, server_thread, httpd, servers, port, caller>>
syncVars == <<is_syncing, sync, client, auto_sync_enabled>>
httpVars == <<doc, last, lastStored, lastMapOK>>
configVars == <<recent_articles, now, config_call>>
toolVars == <<configVars, mapper>>

(***************************************************************************)
(* Bounds of the model.                                                    *)
(***************************************************************************)
MaxUpdates == 2      \* longest 'updates' list built from the core updates
MaxHandlers == 2     \* handler threads in flight at once
MaxThreads == 2      \* threads plug_in may start in one run
MaxCalls == 3        \* add_recent_article / remove_recent_article calls in one run

(***************************************************************************)
(* Python values.                                                          *)
(***************************************************************************)
\* The parsed JSON of a request body: an object with its 'updates' list, its
\* allowOverrideExpression member and the rest of its members (tag), or an array.
Data(kind, hasUpdates, updates, allow, tag) ==
    [kind |-> kind, hasUpdates |-> hasUpdates, updates |-> updates,
     allow |-> allow, tag |-> tag]
EmptyObject == Data("object", FALSE, <<>>, "absent", "")
NoData == Data("none", FALSE, <<>>, "absent", "")

\* A Python value: its type t, its number n (a Quantity in the base unit of
\* its dimension s, a float), its text s (a str) and, for text that is JSON,
\* the data j it is the JSON of.
Quantity(n, dim) == [t |-> "Quantity", n |-> n, s |-> dim, j |-> NoData]
Float(n) == [t |-> "float", n |-> n, s |-> "", j |-> NoData]
PlainText(s) == [t |-> "str", n |-> 0, s |-> s, j |-> NoData]
JsonText(j) == [t |-> "str", n |-> 0, s |-> "json", j |-> j]
PyNone == [t |-> "None", n |-> 0, s |-> "", j |-> NoData]

\* json.dumps and json.loads: the text of a value, and the value of a text
\* (JSONDecodeError for text that is no JSON).
json_dumps(data) == JsonText(data)
json_loads(text) ==
    IF text.s = "json" THEN [exc |-> "", data |-> text.j]
    ELSE [exc |-> "JSONDecodeError", data |-> NoData]

(***************************************************************************)
(* The document: its objects (in Objects order), each with its Name,       *)
(* TypeId, Label, PropertiesList and properties (type, value, expression). *)
(***************************************************************************)
NoExpr == ""
Prop(type, val, expr) == [type |-> type, val |-> val, expr |-> expr]
Object(name, typeId, label, plist, props) ==
    [Name |-> name, TypeId |-> typeId, Label |-> label,
     PropertiesList |-> plist, props |-> props]
NoDoc == [open |-> FALSE, Label |-> "", Objects |-> <<>>]
Document(label, objs) == [open |-> TRUE, Label |-> label, Objects |-> objs]

BoxObject ==
    Object("Box", "Part::Box", "Box",
           <<"Label", "Length", "Visibility">>,
           [Length |-> Prop("App::PropertyLength", Quantity(1, "Length"), NoExpr)])

SheetObject ==
    Object("Sheet", "Spreadsheet::Sheet", "PQs",
           <<"Label", "A1">>,
           [A1 |-> Prop("cell", [t |-> "str", n |-> 2, s |-> "number", j |-> NoData], NoExpr)])

OtherVarSet ==
    Object("VarSet", "App::VarSet", "Other",
           <<"Label", "Base_W">>,
           [Base_W |-> Prop("App::PropertyLength", Quantity(1, "Length"), NoExpr)])

PQsVarSet ==
    Object("VarSet001", "App::VarSet", "PQs",
           <<"ExpressionEngine", "Base_L", "Label", "Base_V", "Count",
             "Visibility", "Note", "Ref", "ExportVars">>,
           [Base_L |-> Prop("App::PropertyLength", Quantity(1, "Length"), NoExpr),
            Base_V |-> Prop("App::PropertyLength", Quantity(1, "Length"), "Base_L"),
            Count |-> Prop("App::PropertyFloat", Float(3), NoExpr),
            Note |-> Prop("App::PropertyString", PlainText("note"), NoExpr),
            Ref |-> Prop("App::PropertyLink", PyNone, NoExpr)])

SecondPQsVarSet ==
    Object("VarSet002", "App::VarSet", "PQs",
           <<"Label", "Base_H">>,
           [Base_H |-> Prop("App::PropertyLength", Quantity(1, "Length"), NoExpr)])

\* A PQs VarSet that already carries a CalcsLiveMappings property, holding
\* text that is no JSON.
MappedVarSet ==
    Object("VarSet001", "App::VarSet", "PQs",
           <<"Label", "Base_L", "CalcsLiveMappings">>,
           [Base_L |-> Prop("App::PropertyLength", Quantity(1, "Length"), NoExpr),
            CalcsLiveMappings |->
                Prop("App::PropertyString", PlainText("not json"), NoExpr)])

Documents ==
    { NoDoc,
      Document("Part", <<BoxObject, OtherVarSet>>),
      Document("Model", <<SheetObject, OtherVarSet, PQsVarSet, SecondPQsVarSet>>),
      Document("Old", <<MappedVarSet>>) }

hasattr(obj, prop) == prop \in DOMAIN obj.props

Min(S) == CHOOSE x \in S : \A y \in S : x <= y

(***************************************************************************)
(* get_varset_object: the first App::VarSet labelled "PQs" of doc.Objects; *)
(* RuntimeError without a document or without such a VarSet.  idx is the   *)
(* object's place in doc.Objects.                                          *)
(***************************************************************************)
target_label == "PQs"

\* A lookup by label alone, whatever the object's type.
get_varset_object_by_label(d) ==
    LET found == {i \in 1..Len(d.Objects) : d.Objects[i].Label = target_label}
    IN  IF ~d.open \/ found = {}
        THEN [exc |-> "RuntimeError", idx |-> 0]
        ELSE [exc |-> "", idx |-> Min(found)]

get_varset_object(d) ==
    LET found == {i \in 1..Len(d.Objects) :
                     /\ d.Objects[i].TypeId = "App::VarSet"
                     /\ d.Objects[i].Label = target_label}
    IN  IF ~d.open \/ found = {}
        THEN [exc |-> "RuntimeError", idx |-> 0]
        ELSE [exc |-> "", idx |-> Min(found)]

(***************************************************************************)
(* Document.recompute(): every expression is evaluated again.              *)
(***************************************************************************)
Eval(obj, p) == obj.props[obj.props[p].expr].val

recomputeObject(obj) ==
    [obj EXCEPT !.props =
        [p \in DOMAIN obj.props |->
            IF obj.props[p].expr = NoExpr THEN obj.props[p]
            ELSE [obj.props[p] EXCEPT !.val = Eval(obj, p)]]]

recompute(d) ==
    [d EXCEPT !.Objects = [i \in 1..Len(d.Objects) |-> recomputeObject(d.Objects[i])]]

(***************************************************************************)
(* export_payload                                                          *)
(***************************************************************************)
skip_props ==
    {"Label", "Label2", "Name", "Visibility", "Content", "ExpressionEngine",
     "Document", "Module", "TypeId", "ID", "State", "ViewObject", "FullName",
     "InList", "OutList", "Parents", "MemSize", "MustExecute", "Removing",
     "NoTouch", "OldLabel", "ExportVars"}

\* f"{varset.Name}:{varset.Label}/{prop_name}", as the tokens of the string
ExportPath(obj, prop_name) == <<obj.Name, ":", obj.Label, "/", prop_name>>

\* The entry appended for one property: a Quantity (hasattr Value), a str,
\* a plain number (float(prop_str)), or the error entry when float() raises.
ParamEntry(obj, prop_name) ==
    LET prop_str == obj.props[prop_name].val
        expr == obj.props[prop_name].expr
        form == CASE prop_str.t = "Quantity" -> "quantity"
                  [] prop_str.t = "str" -> "string"
                  [] prop_str.t = "float" -> "number"
                  [] OTHER -> "error"
    IN  [path |-> ExportPath(obj, prop_name),
         name |-> prop_name,
         form |-> form,
         expr |-> IF form \in {"quantity", "number"} THEN expr ELSE NoExpr,
         readonly |-> form \in {"quantity", "number"} /\ expr # NoExpr,
         value |-> IF form = "error" THEN PyNone ELSE prop_str]

\* The loop over PropertiesList, from its i-th name on.
RECURSIVE ExportLoop(_, _, _)
ExportLoop(obj, i, params) ==
    IF i > Len(obj.PropertiesList) THEN params
    ELSE IF obj.PropertiesList[i] \in skip_props
         THEN ExportLoop(obj, i + 1, params)
         ELSE ExportLoop(obj, i + 1,
                         Append(params, ParamEntry(obj, obj.PropertiesList[i])))

\* An export that lets the RuntimeError of get_varset_object escape.
export_payload_raising(d) ==
    LET v == get_varset_object(d)
    IN  IF v.exc # ""
        THEN [exc |-> v.exc, raised |-> TRUE, error |-> TRUE, params |-> <<>>]
        ELSE [exc |-> "", raised |-> FALSE, error |-> FALSE,
              params |-> ExportLoop(d.Objects[v.idx], 1, <<>>)]

\* raised: an exception was raised on the way (and caught here).
export_payload(d) ==
    LET v == get_varset_object(d)
    IN  IF v.exc # ""
        THEN [exc |-> "", raised |-> TRUE, error |-> TRUE, params |-> <<>>]
        ELSE [exc |-> "", raised |-> FALSE, error |-> FALSE,
              params |-> ExportLoop(d.Objects[v.idx], 1, <<>>)]

(***************************************************************************)
(* get_pq_mappings and set_pq_mappings                                     *)
(***************************************************************************)
DefaultMapping == Data("object", FALSE, <<>>, "absent", "default structure")

\* The document with object i replaced by obj.
WithObject(d, i, obj) == [d EXCEPT !.Objects[i] = obj]

get_pq_mappings(d) ==
    LET v == get_varset_object(d)
    IN  IF v.exc # "" THEN [exc |-> v.exc, data |-> NoData]
        ELSE LET varset == d.Objects[v.idx]
                 \* getattr(varset, 'CalcsLiveMappings', None)
                 mapping_json == IF hasattr(varset, "CalcsLiveMappings")
                                 THEN varset.props["CalcsLiveMappings"].val
                                 ELSE PyNone
                 truthy == mapping_json.t = "str" /\ mapping_json.s # ""
             IN  IF truthy /\ json_loads(mapping_json).exc = ""
                 THEN [exc |-> "", data |-> json_loads(mapping_json).data]
                 ELSE [exc |-> "", data |-> DefaultMapping]

\* A save that assigns only to the property it has just added.
set_pq_mappings_once(mapping_data, d) ==
    LET v == get_varset_object(d)
    IN  IF v.exc # "" THEN [exc |-> v.exc, doc |-> d, stored |-> NoData]
        ELSE LET varset == d.Objects[v.idx]
                 added == IF hasattr(varset, "CalcsLiveMappings") THEN varset
                          ELSE [varset EXCEPT
                                  !.PropertiesList = Append(@, "CalcsLiveMappings"),
                                  !.props = @ @@ ("CalcsLiveMappings" :>
                                      Prop("App::PropertyString",
                                           json_dumps(mapping_data), NoExpr))]
             IN  [exc |-> IF mapping_data.kind = "object" THEN "" ELSE "AttributeError",
                  doc |-> recompute(WithObject(d, v.idx, added)),
                  stored |-> mapping_data]

\* stored: the data assigned to CalcsLiveMappings (NoData when the
\* assignment was not reached).  The len(mapping_data.get('articles', []))
\* that ends the function raises AttributeError for data that is no object.
set_pq_mappings(mapping_data, d) ==
    LET v == get_varset_object(d)
    IN  IF v.exc # "" THEN [exc |-> v.exc, doc |-> d, stored |-> NoData]
        ELSE LET varset == d.Objects[v.idx]
                 added == IF hasattr(varset, "CalcsLiveMappings") THEN varset
                          ELSE [varset EXCEPT
                                  !.PropertiesList = Append(@, "CalcsLiveMappings"),
                                  !.props = @ @@ ("CalcsLiveMappings" :>
                                      Prop("App::PropertyString", PlainText(""), NoExpr))]
                 assigned == [added EXCEPT !.props["CalcsLiveMappings"].val =
                                               json_dumps(mapping_data)]
             IN  [exc |-> IF mapping_data.kind = "object" THEN "" ELSE "AttributeError",
                  doc |-> recompute(WithObject(d, v.idx, assigned)),
                  stored |-> mapping_data]

(***************************************************************************)
(* Quantity helpers                                                        *)
(***************************************************************************)
\* The dimension of a unit string; "" for a string Units.Quantity cannot parse.
UnitDimension(unit) ==
    CASE unit = "mm" -> "Length"
      [] unit = "kg" -> "Mass"
      [] OTHER -> ""

kind_to_units_kind(kind) ==
    IF kind \in {"Length", "Angle", "Area", "Volume", "Mass", "Velocity",
                 "Acceleration", "Pressure", "Force", "Power", "Density"}
    THEN kind ELSE "Length"

\* value is a float here (a JSON number)
to_quantity(value, kind) == Quantity(value.n, kind_to_units_kind(kind))

\* A check that finds no expression anywhere.
has_expression_never(obj, prop) == FALSE

\* getExpression raises for a name that is no property: caught, False.
has_expression(obj, prop) ==
    IF hasattr(obj, prop) THEN obj.props[prop].expr # NoExpr ELSE FALSE

(***************************************************************************)
(* write_path                                                              *)
(***************************************************************************)
\* An update of the 'updates' list: a JSON object with its members (an
\* absent name or path is <<>>, an absent unit is ""), or a JSON value that
\* is no object.
Update(name, path, value, unit, pqKind) ==
    [isDict |-> TRUE, name |-> name, path |-> path, value |-> value,
     unit |-> unit, pqKind |-> pqKind]
NotAnObject ==
    [isDict |-> FALSE, name |-> <<>>, path |-> <<>>, value |-> Float(0),
     unit |-> "", pqKind |-> "Length"]

\* Strings are sequences of tokens; ":" and "/" are tokens of their own.
Contains(str, tok) == \E i \in 1..Len(str) : str[i] = tok
FirstIndex(str, tok) == Min({i \in 1..Len(str) : str[i] = tok})
\* str.split(tok, 1): one part without tok, else the parts before and after
\* its first occurrence
Split1(str, tok) ==
    IF ~Contains(str, tok) THEN <<str>>
    ELSE <<SubSeq(str, 1, FirstIndex(str, tok) - 1),
           SubSeq(str, FirstIndex(str, tok) + 1, Len(str))>>
\* str.split(tok)[0]
SplitFirst(str, tok) ==
    IF ~Contains(str, tok) THEN str ELSE SubSeq(str, 1, FirstIndex(str, tok) - 1)

\* doc.getObject(name): the place of the object of that Name, 0 for None
getObject(d, obj_name) ==
    LET found == {i \in 1..Len(d.Objects) : <<d.Objects[i].Name>> = obj_name}
    IN  IF found = {} THEN 0 ELSE Min(found)

\* setattr(obj, prop, v) by FreeCAD's property types: the new object, or exc.
setattr(obj, prop, v) ==
    LET type == IF hasattr(obj, prop) THEN obj.props[prop].type ELSE ""
        dim == IF type = "App::PropertyLength" THEN "Length" ELSE ""
        ok(new) == [exc |-> "", obj |-> [obj EXCEPT !.props[prop].val = new]]
        no(e) == [exc |-> e, obj |-> obj]
    IN  CASE type = "" -> no("AttributeError")
          [] type = "App::PropertyLength" ->
                IF v.t = "Quantity" /\ v.s = dim THEN ok(v)
                ELSE IF v.t = "float" THEN ok(Quantity(v.n, dim))
                ELSE no("TypeError")
          [] type = "App::PropertyFloat" ->
                IF v.t = "float" THEN ok(v) ELSE no("TypeError")
          [] type = "App::PropertyString" ->
                IF v.t = "str" THEN ok(v) ELSE no("TypeError")
          [] OTHER -> no("TypeError")

\* str(disp_val): the text of a number
NumberText(n) == [t |-> "str", n |-> n, s |-> "number", j |-> NoData]

\* written: the <<object name, property>> pairs assigned.
write_path(d, path, value, unit, kind, allow_override_expression) ==
    LET fail(e) == [exc |-> e, doc |-> d, written |-> {}]
        parts == Split1(path, "/")
    IN  IF path = <<>> THEN fail("TypeError")       \* ":" in None
        ELSE IF Len(parts) # 2 THEN fail("ValueError")   \* unpacking one part
        ELSE
        LET prop_tokens == parts[2]
            obj_name == IF Contains(path, ":") THEN SplitFirst(parts[1], ":")
                        ELSE parts[1]
            prop == IF Len(prop_tokens) = 1 THEN prop_tokens[1] ELSE "?"
            i == IF d.open THEN getObject(d, obj_name) ELSE 0
        IN  IF ~d.open THEN fail("AttributeError")  \* None.getObject
            ELSE IF i = 0 THEN fail("ValueError")   \* Object not found
            ELSE
            LET obj == d.Objects[i]
                q == IF unit # "" THEN Quantity(value.n, UnitDimension(unit))
                     ELSE to_quantity(value, kind)
                first == setattr(obj, prop, q)
                second == setattr(obj, prop, Float(q.n))
                done(o) == [exc |-> "", doc |-> WithObject(d, i, o),
                            written |-> {<<obj.Name, prop>>}]
            IN  IF has_expression(obj, prop) /\ ~allow_override_expression
                THEN fail("RuntimeError")           \* expression-driven
                ELSE IF value.t # "float" \/ (unit # "" /\ UnitDimension(unit) = "")
                THEN fail("ValueError")             \* Units.Quantity cannot parse
                ELSE IF obj.TypeId = "Spreadsheet::Sheet"
                THEN IF hasattr(obj, prop)
                     THEN done([obj EXCEPT !.props[prop].val = NumberText(q.n)])
                     ELSE fail("ValueError")        \* no cell address
                ELSE IF first.exc = "" THEN done(first.obj)
                ELSE IF second.exc = "" THEN done(second.obj)
                ELSE fail(second.exc)

(***************************************************************************)
(* apply_updates                                                           *)
(***************************************************************************)
\* upd.get("name") or upd.get("path")
UpdatePath(upd) == IF upd.name # <<>> THEN upd.name ELSE upd.path

\* The loop, from the i-th update on.  upd.get of an update that is no
\* object raises outside the try: the loop is left with exc set.
\* The try of the loop body: the update is appended to 'applied' when
\* write_path (w) returned, to 'errors' when it raised.
Recorded(acc, i, w) ==
    IF w.exc = ""
    THEN [acc EXCEPT !.doc = w.doc,
                     !.applied = Append(@, i),
                     !.written = @ \cup w.written]
    ELSE [acc EXCEPT !.errors = Append(@, i)]

RECURSIVE UpdateLoop(_, _, _, _)
UpdateLoop(updates, i, allow, acc) ==
    IF i > Len(updates) THEN acc
    ELSE IF ~updates[i].isDict THEN [acc EXCEPT !.exc = "AttributeError"]
    ELSE UpdateLoop(updates, i + 1, allow,
            Recorded(acc, i,
                     write_path(acc.doc, UpdatePath(updates[i]), updates[i].value,
                                updates[i].unit, updates[i].pqKind, allow)))

\* applied, errors: the places in 'updates' of the updates reported there.
\* The recompute is reached only when the loop ends without exception.
\* "if doc: doc.recompute()" after the loop
RecomputedAfter(r, d) ==
    IF r.exc = "" /\ d.open THEN [r EXCEPT !.doc = recompute(r.doc)] ELSE r

apply_updates(updates, d, allow_override_expression) ==
    RecomputedAfter(UpdateLoop(updates, 1, allow_override_expression,
                               [exc |-> "", doc |-> d, applied |-> <<>>,
                                errors |-> <<>>, written |-> {}]),
                    d)

(***************************************************************************)
(* CalcsLivePlugHandler: do_GET and do_POST                                *)
(***************************************************************************)
NoBody == [valid |-> FALSE, data |-> NoData]
Request(method, path, body) == [method |-> method, path |-> path, body |-> body]
NoRequest == Request("none", "", NoBody)

\* The response sent by _send_json: the status code and the payload (its
\* 'error' member, 'params', 'applied' and 'errors', or the mapping data).
Response(code, error, params, applied, errors, data) ==
    [code |-> code, error |-> error, params |-> params, applied |-> applied,
     errors |-> errors, data |-> data]
Plain(code, error) == Response(code, error, <<>>, <<>>, <<>>, NoData)

\* What a handler did: the document it leaves, the response, whether it
\* read the document, the properties it assigned, whether an exception was
\* raised on the way, and the data it stored as the mapping.
Outcome(d, resp, read, written, raised, stored) ==
    [doc |-> d, resp |-> resp, read |-> read, written |-> written,
     raised |-> raised, stored |-> stored]

\* A dispatch on the path without its query string.
Route_loose(method, path) ==
    IF method = "GET"
    THEN CASE path \in {"/calcslive/export", "/calcslive/export?v=1"} -> "export"
           [] path = "/calcslive/mapping" -> "mapping"
           [] path = "/calcslive/clean-units" -> "clean-units"
           [] path = "/calcslive/status" -> "status"
           [] OTHER -> "404"
    ELSE CASE path = "/calcslive/import" -> "import"
           [] path \in {"/calcslive/mapping", "/calcslive/mapping?x=1"} -> "save-mapping"
           [] OTHER -> "404"

\* The branch of do_GET / do_POST taken: self.path == "..."
Route(method, path) ==
    IF method = "GET"
    THEN CASE path = "/calcslive/export" -> "export"
           [] path = "/calcslive/mapping" -> "mapping"
           [] path = "/calcslive/clean-units" -> "clean-units"
           [] path = "/calcslive/status" -> "status"
           [] OTHER -> "404"
    ELSE CASE path = "/calcslive/import" -> "import"
           [] path = "/calcslive/mapping" -> "save-mapping"
           [] OTHER -> "404"

\* The try/except of each endpoint, given what its operation returned:
\* 200 with the payload, or 500 with the exception's message.
ExportAnswer(d, payload) ==
    IF payload.exc # ""
    THEN Outcome(d, Plain(500, TRUE), TRUE, {}, TRUE, NoData)
    ELSE Outcome(d, Response(200, payload.error, payload.params, <<>>, <<>>, NoData),
                 TRUE, {}, payload.raised, NoData)

MappingAnswer(d, m) ==
    IF m.exc # ""
    THEN Outcome(d, Plain(500, TRUE), TRUE, {}, TRUE, NoData)
    ELSE Outcome(d, Response(200, FALSE, <<>>, <<>>, <<>>, m.data),
                 TRUE, {}, FALSE, NoData)

ImportAnswer(res) ==
    IF res.exc # ""
    THEN Outcome(res.doc, Plain(500, TRUE), TRUE, res.written, TRUE, NoData)
    ELSE Outcome(res.doc, Response(200, FALSE, <<>>, res.applied, res.errors, NoData),
                 TRUE, res.written, res.errors # <<>>, NoData)

SaveMappingAnswer(result) ==
    IF result.exc # ""
    THEN Outcome(result.doc, Plain(500, TRUE), TRUE, {}, TRUE, result.stored)
    ELSE Outcome(result.doc, Plain(200, FALSE), TRUE, {}, FALSE, result.stored)

NotFound(d) == Outcome(d, Plain(404, TRUE), FALSE, {}, FALSE, NoData)

do_GET(path, d) ==
    CASE Route("GET", path) = "export" -> ExportAnswer(d, export_payload(d))
      [] Route("GET", path) = "mapping" -> MappingAnswer(d, get_pq_mappings(d))
      [] Route("GET", path) = "clean-units" ->
           \* get_clean_units_data does not look at the document
           Outcome(d, Plain(200, FALSE), FALSE, {}, FALSE, NoData)
      [] Route("GET", path) = "status" ->
           \* doc.Label if doc else None
           Outcome(d, Plain(200, FALSE), TRUE, {}, FALSE, NoData)
      [] OTHER -> NotFound(d)

\* json.loads(body) or, when that raises, {}
ParseBody(body) == IF body.valid THEN body.data ELSE EmptyObject

\* data.get("updates", []) and bool(data.get("allowOverrideExpression",
\* False)); data.get raises AttributeError for data that is no object.
do_import(data, d) ==
    IF data.kind # "object"
    THEN Outcome(d, Plain(500, TRUE), FALSE, {}, TRUE, NoData)
    ELSE ImportAnswer(apply_updates(IF data.hasUpdates THEN data.updates ELSE <<>>,
                                    d, data.allow = "true"))

do_POST(path, body, d) ==
    CASE Route("POST", path) = "import" -> do_import(ParseBody(body), d)
      [] Route("POST", path) = "save-mapping" ->
           SaveMappingAnswer(set_pq_mappings(ParseBody(body), d))
      [] OTHER -> NotFound(d)

Handle(req, d) ==
    IF req.method = "GET" THEN do_GET(req.path, d)
    ELSE do_POST(req.path, req.body, d)

(***************************************************************************)
(* The requests of the model.                                              *)
(***************************************************************************)
Num(n) == Float(n)
U_L == Update(<<>>, <<"VarSet001", ":", "PQs", "/", "Base_L">>, Num(5), "mm", "Length")
U_V == Update(<<"VarSet001", ":", "PQs", "/", "Base_V">>, <<>>, Num(9), "mm", "Length")
U_Count == Update(<<>>, <<"VarSet001", "/", "Count">>, Num(7), "", "Length")
U_Map == Update(<<>>, <<"VarSet001", "/", "CalcsLiveMappings">>, Num(4), "mm", "Length")
U_Bare == Update(<<"Base_L">>, <<"VarSet001", ":", "PQs", "/", "Base_L">>, Num(5), "mm", "Length")
U_Sheet == Update(<<>>, <<"Sheet", "/", "A1">>, Num(6), "mm", "Length")
U_Box == Update(<<>>, <<"Box", "/", "Length">>, Num(5), "kg", "Mass")
U_NoProp == Update(<<>>, <<"VarSet001", ":", "PQs", "/", "Nope">>, Num(5), "mm", "Length")
U_NoPath == Update(<<>>, <<>>, Num(5), "mm", "Length")
U_Text == Update(<<>>, <<"VarSet001", "/", "Base_L">>, PlainText("abc"), "", "Length")

\* The updates whose order in one list matters: a write, a refused write,
\* and the update that ends the loop.
CoreUpdates == {U_L, U_V, NotAnObject}
OtherUpdates == {U_Count, U_Map, U_Bare, U_Sheet, U_Box, U_NoProp, U_NoPath, U_Text}

UpdateLists ==
    UNION {[1..k -> CoreUpdates] : k \in 0..MaxUpdates}
    \cup {<<u>> : u \in OtherUpdates}

ImportBodies ==
    {[valid |-> TRUE, data |-> Data("object", TRUE, us, a, "")] :
        us \in UpdateLists, a \in {"absent", "false", "true"}}

D1 == Data("object", FALSE, <<>>, "absent", "articleId A1")
D2 == Data("object", FALSE, <<>>, "absent", "articleId A2")
ArrayData == Data("array", FALSE, <<>>, "absent", "")
OtherBodies ==
    {[valid |-> TRUE, data |-> j] : j \in {D1, D2, EmptyObject, ArrayData}}
    \cup {[valid |-> FALSE, data |-> NoData]}

GetPaths ==
    {"/calcslive/export", "/calcslive/mapping", "/calcslive/clean-units",
     "/calcslive/status", "/calcslive/import", "/calcslive/export/",
     "/calcslive/export?v=1", "/calcslive/Export", "/calcslive", "/"}
PostPaths ==
    {"/calcslive/import", "/calcslive/mapping", "/calcslive/export",
     "/calcslive/import/", "/calcslive/mapping?x=1"}

Requests ==
    {Request("GET", p, NoBody) : p \in GetPaths}
    \cup {Request("POST", "/calcslive/import", b) : b \in ImportBodies \cup OtherBodies}
    \cup {Request("POST", p, b) : p \in PostPaths \ {"/calcslive/import"},
                                  b \in OtherBodies}

(***************************************************************************)
(* One request served.                                                     *)
(***************************************************************************)
NoLast ==
    [req |-> NoRequest, before |-> NoDoc,
     out |-> Outcome(NoDoc, Plain(0, FALSE), FALSE, {}, FALSE, NoData)]

\* The handler's work on the document, from reading the request to the
\* response it is about to send.
Executed(req) ==
    /\ last' = [req |-> req, before |-> doc, out |-> Handle(req, doc)]
    /\ doc' = last'.out.doc
    /\ lastStored' = IF last'.out.stored # NoData THEN last'.out.stored
                     ELSE lastStored

\* A request handled with no other handler at work: Serve is the handler's
\* work up to the response it is about to send, Finish the sending of the
\* response, with which the handler ends.
Serve ==
    \E req \in Requests :
        /\ last = NoLast
        /\ Executed(req)
        /\ lastMapOK' =
              IF Route(req.method, req.path) # "save-mapping" THEN lastMapOK
              ELSE IF last'.out.resp.code = 200 THEN ParseBody(req.body) ELSE NoData
        /\ UNCHANGED <<handlers, plugVars, syncVars, toolVars>>

Finish ==
    /\ last # NoLast
    /\ last' = NoLast
    /\ UNCHANGED <<doc, lastStored, lastMapOK, handlers, plugVars, syncVars, toolVars>>

(***************************************************************************)
(* The server threads: plug_in, _run_server, unplug.                       *)
(*                                                                         *)
(* A thread started by plug_in is "started" until it constructs the        *)
(* server, "bound" until it enters serve_forever, "serving" in             *)
(* serve_forever, "exiting" from there to the end of _run_server, and then *)
(* "dead"; "failed" when the constructor raised (the port is taken),       *)
(* "unstarted" when Thread.start() raised.                                 *)
(***************************************************************************)
ThreadIds == 1..MaxThreads
OtherProcess == 0 - 1      \* the port is held by another process
NoThread == 0

Alive(t) == threads[t] \in {"started", "bound", "serving", "handling", "exiting"}

\* The server class constructed by _run_server: a ThreadingHTTPServer hands
\* every accepted request to a new thread (an HTTPServer would handle it on
\* the thread that runs serve_forever).
ServerClass_single == "HTTPServer"
ServerClass == "ThreadingHTTPServer"

NewServer == [shutdown_request |-> FALSE, is_shut_down |-> FALSE, open |-> FALSE]

Idle(op, ret) == [pc |-> "idle", op |-> op, ret |-> ret, h |-> NoThread]

\* plug_in: True at once when the thread of _server_thread is alive; else a
\* new thread is started and True returned; False when start() raises.
plug_in ==
    /\ caller.pc = "idle"
    /\ \/ /\ server_thread # NoThread /\ Alive(server_thread)
          /\ caller' = Idle("plug_in", "True")
          /\ UNCHANGED <<threads, server_thread>>
       \/ /\ ~(server_thread # NoThread /\ Alive(server_thread))
          /\ \E t \in ThreadIds :
                /\ threads[t] = "new"
                /\ \A u \in ThreadIds : u < t => threads[u] # "new"
                /\ server_thread' = t
                /\ \/ /\ threads' = [threads EXCEPT ![t] = "started"]
                      /\ caller' = Idle("plug_in", "True")
                   \/ /\ threads' = [threads EXCEPT ![t] = "unstarted"]
                      /\ caller' = Idle("plug_in", "False")
    /\ UNCHANGED <<httpd, servers, port, handlers, httpVars, syncVars, toolVars>>

\* _httpd = ThreadingHTTPServer((HOST, PORT), ...): binds the port, or
\* raises when it is taken (caught and printed: the thread ends).
run_server_bind(t) ==
    /\ threads[t] = "started"
    /\ IF port = 0
       THEN /\ port' = t
            /\ servers' = [servers EXCEPT ![t] = [NewServer EXCEPT !.open = TRUE]]
            /\ httpd' = t
            /\ threads' = [threads EXCEPT ![t] = "bound"]
       ELSE /\ threads' = [threads EXCEPT ![t] = "failed"]
            /\ UNCHANGED <<port, servers, httpd>>
    /\ UNCHANGED <<server_thread, caller, handlers, httpVars, syncVars, toolVars>>

\* _httpd.serve_forever() is entered: it clears is_shut_down.
run_server_serve(t) ==
    /\ threads[t] = "bound"
    /\ threads' = [threads EXCEPT ![t] = "serving"]
    /\ servers' = [servers EXCEPT ![t].is_shut_down = FALSE]
    /\ UNCHANGED <<server_thread, httpd, port, caller, handlers, httpVars, syncVars, toolVars>>

\* serve_forever sees the shutdown request and returns, setting is_shut_down.
serve_forever_returns(t) ==
    /\ threads[t] = "serving"
    /\ servers[t].shutdown_request
    /\ threads' = [threads EXCEPT ![t] = "exiting"]
    /\ servers' = [servers EXCEPT ![t].shutdown_request = FALSE,
                                  ![t].is_shut_down = TRUE]
    /\ UNCHANGED <<server_thread, httpd, port, caller, handlers, httpVars, syncVars, toolVars>>

\* _run_server returns: the thread ends.
run_server_returns(t) ==
    /\ threads[t] = "exiting"
    /\ threads' = [threads EXCEPT ![t] = "dead"]
    /\ UNCHANGED <<server_thread, httpd, servers, port, caller, handlers,
                   httpVars, syncVars, toolVars>>

\* unplug, "if _httpd:" and _httpd.shutdown(), which asks the serve loop to
\* end and then waits for it.
unplug_begin ==
    /\ caller.pc = "idle"
    /\ IF httpd # NoThread
       THEN /\ servers' = [servers EXCEPT ![httpd].shutdown_request = TRUE]
            /\ caller' = [pc |-> "shutdown", op |-> "unplug", ret |-> "", h |-> httpd]
       ELSE /\ caller' = [pc |-> "check_thread", op |-> "unplug", ret |-> "",
                          h |-> NoThread]
            /\ UNCHANGED servers
    /\ UNCHANGED <<threads, server_thread, httpd, port, handlers, httpVars, syncVars, toolVars>>

\* shutdown() returns once the serve loop has ended; _httpd.server_close()
\* closes the socket.
unplug_server_close ==
    /\ caller.pc = "shutdown"
    /\ servers[caller.h].is_shut_down
    /\ servers' = [servers EXCEPT ![caller.h].open = FALSE]
    /\ port' = IF port = caller.h THEN 0 ELSE port
    /\ caller' = [caller EXCEPT !.pc = "clear"]
    /\ UNCHANGED <<threads, server_thread, httpd, handlers, httpVars, syncVars, toolVars>>

\* _httpd = None
unplug_clear ==
    /\ caller.pc = "clear"
    /\ httpd' = NoThread
    /\ caller' = [caller EXCEPT !.pc = "check_thread"]
    /\ UNCHANGED <<threads, server_thread, servers, port, handlers, httpVars, syncVars, toolVars>>

\* "if _server_thread and _server_thread.is_alive():" join, else return True
unplug_check_thread ==
    /\ caller.pc = "check_thread"
    /\ IF server_thread # NoThread /\ Alive(server_thread)
       THEN caller' = [caller EXCEPT !.pc = "join"]
       ELSE caller' = Idle("unplug", "True")
    /\ UNCHANGED <<threads, server_thread, httpd, servers, port, handlers,
                   httpVars, syncVars, toolVars>>

\* _server_thread.join(timeout=3) returns: the thread has ended, or it is in
\* a serve loop nobody asked to end and the three seconds pass.  Then
\* _server_thread = None and True is returned.
unplug_join_returns ==
    /\ caller.pc = "join"
    /\ \/ ~Alive(server_thread)
       \/ /\ threads[server_thread] \in {"serving", "handling"}
          /\ ~servers[server_thread].shutdown_request
    /\ server_thread' = NoThread
    /\ caller' = Idle("unplug", "True")
    /\ UNCHANGED <<threads, httpd, servers, port, handlers, httpVars, syncVars, toolVars>>

(***************************************************************************)
(* The handler threads.                                                    *)
(***************************************************************************)
HandlerIds == 1..MaxHandlers
FreeHandler == [pc |-> "free", on |-> NoThread, code |-> 0, saved |-> NoData,
                route |-> ""]
InFlight == {h \in HandlerIds : handlers[h].pc # "free"}

\* The serve loop of thread t accepts a connection; process_request hands
\* it to a new thread (h), and the loop goes on.
Accept(t) ==
    /\ threads[t] = "serving"
    /\ servers[t].open /\ ~servers[t].shutdown_request
    /\ \E h \in HandlerIds :
          /\ handlers[h].pc = "free"
          /\ \A g \in HandlerIds : g < h => handlers[g].pc # "free"
          /\ IF ServerClass = "ThreadingHTTPServer"
             THEN /\ handlers' = [handlers EXCEPT ![h] =
                                     [FreeHandler EXCEPT !.pc = "accepted"]]
                  /\ UNCHANGED threads
             ELSE /\ handlers' = [handlers EXCEPT ![h] =
                                     [FreeHandler EXCEPT !.pc = "accepted", !.on = t]]
                  /\ threads' = [threads EXCEPT ![t] = "handling"]
    /\ UNCHANGED <<server_thread, httpd, servers, port, caller, httpVars, syncVars, toolVars>>

\* The handler thread h reads its request and runs do_GET or do_POST up to
\* the response it is about to send.
Execute(h, req) ==
    /\ handlers[h].pc = "accepted"
    /\ Executed(req)
    /\ handlers' = [handlers EXCEPT ![h] =
                       [@ EXCEPT !.pc = "responding",
                                 !.code = last'.out.resp.code,
                                 !.route = Route(req.method, req.path),
                                 !.saved = ParseBody(req.body)]]
    /\ lastMapOK' = IF Route(req.method, req.path) = "save-mapping" THEN NoData
                    ELSE lastMapOK
    /\ UNCHANGED <<plugVars, syncVars, toolVars>>

\* The handler thread h sends its response and ends.
Respond(h) ==
    /\ handlers[h].pc = "responding"
    /\ handlers' = [handlers EXCEPT ![h] = FreeHandler]
    /\ threads' = IF handlers[h].on = NoThread THEN threads
                  ELSE [threads EXCEPT ![handlers[h].on] = "serving"]
    /\ lastMapOK' = IF handlers[h].route = "save-mapping" /\ handlers[h].code = 200
                    THEN handlers[h].saved ELSE lastMapOK
    /\ UNCHANGED <<doc, last, lastStored, server_thread, httpd, servers, port,
                   caller, syncVars, toolVars>>

(***************************************************************************)
(* SyncEngine.sync_with_calcslive, called by the UI thread (SyncCommand)   *)
(* and by the auto-sync worker thread.                                     *)
(*                                                                         *)
(* A caller is at "call" when it enters sync_with_calcslive, at "set" when *)
(* it has passed the is_syncing test, then at the step it is about to run. *)
(* steps lists what the call did outside the engine: the CalcsLive         *)
(* requests (validate, calculate) and the FreeCAD work (extract, update).  *)
(***************************************************************************)
SyncThreads == {"ui", "worker"}

(***************************************************************************)
(* ParameterExtractor: the parameters of an object are its properties      *)
(* holding a quantity, named <Label>_<property>; as in a dict, a parameter *)
(* extracted later replaces one of the same name.                          *)
(***************************************************************************)
\* str(prop_value.Unit) as _convert_unit maps it
convert_unit(dim) == IF dim = "Length" THEN "mm" ELSE "dimensionless"

is_dimensional_property(prop) == prop.val.t = "Quantity"

extract_dimensional_parameter(obj, prop_name) ==
    [name |-> <<obj.Label, "_", prop_name>>,
     value |-> obj.props[prop_name].val.n,
     unit |-> convert_unit(obj.props[prop_name].val.s),
     source_object |-> obj.Name]

extract_object_parameters(obj) ==
    {extract_dimensional_parameter(obj, obj.PropertiesList[k]) :
        k \in {n \in 1..Len(obj.PropertiesList) :
                 /\ hasattr(obj, obj.PropertiesList[n])
                 /\ is_dimensional_property(obj.props[obj.PropertiesList[n]])}}

\* parameters.update(obj_params)
DictUpdate(parameters, obj_params) ==
    {r \in parameters : \A q \in obj_params : q.name # r.name} \cup obj_params

\* The loop over objs, from its i-th object on
RECURSIVE ExtractLoop(_, _, _)
ExtractLoop(objs, i, parameters) ==
    IF i > Len(objs) THEN parameters
    ELSE ExtractLoop(objs, i + 1,
                     DictUpdate(parameters, extract_object_parameters(objs[i])))

\* No cell of the sheets modelled holds a value with a unit
\* (_looks_like_parameter), so the sheets add nothing.
extract_spreadsheet_parameters(d) == {}

extract_document_parameters(d) ==
    DictUpdate(ExtractLoop(d.Objects, 1, {}), extract_spreadsheet_parameters(d))

\* selection: the places in doc.Objects of the selected objects, in order
get_selected_parameters(d, selection) ==
    ExtractLoop([k \in 1..Len(selection) |-> d.Objects[selection[k]]], 1, {})

format_for_calcslive(parameters) ==
    {[name |-> r.name, value |-> r.value, unit |-> r.unit] : r \in parameters}

\* What FreeCADGui.Selection.getSelection() may give
Selections == {<<>>, <<1>>, <<3>>, <<2, 4>>, <<1, 2, 3, 4>>}

NoSelectedParameters == "No parameters found in selected objects"

\* steps: sync_result['steps'] in the order the steps were entered;
\* extracted, inputs: what step 2 extracted and step 3 passed to CalcsLive;
\* contacted: the CalcsLive client was called.
SyncState(pc, result, steps, update_model, errors) ==
    [pc |-> pc, result |-> result, steps |-> steps,
     update_model |-> update_model, errors |-> errors,
     use_selection |-> FALSE, selection |-> <<>>, selected_params |-> {},
     extracted |-> {}, inputs |-> {}, contacted |-> FALSE]

\* Where a caller goes on when sync_with_calcslive returns
Returned(th) == IF th = "ui" THEN "idle" ELSE "after"

AlreadyInProgress == "Sync already in progress"

\* SyncCommand.Activated: the sync options come from the dialog.
ui_activate ==
    /\ sync["ui"].pc = "idle"
    /\ \E um \in BOOLEAN, sync_selection \in BOOLEAN, selection \in Selections :
          sync' = [sync EXCEPT !["ui"] =
                     [SyncState(IF sync_selection THEN "select" ELSE "call",
                                "", <<>>, um, FALSE)
                        EXCEPT !.selection = selection]]
    /\ UNCHANGED <<is_syncing, client, auto_sync_enabled, handlers, httpVars, plugVars, toolVars>>

\* Lines 223-254: nothing selected yields a failure, otherwise the
\* selected parameters are put in the options and sync_with_calcslive runs.
sync_selection_with_calcslive ==
    /\ sync["ui"].pc = "select"
    /\ sync' = [sync EXCEPT !["ui"] =
                  IF get_selected_parameters(doc, sync["ui"].selection) = {}
                  THEN [@ EXCEPT !.pc = "idle", !.result = NoSelectedParameters]
                  ELSE [@ EXCEPT !.pc = "call",
                                 !.use_selection = TRUE,
                                 !.selected_params =
                                     get_selected_parameters(doc, sync["ui"].selection)]]
    /\ UNCHANGED <<is_syncing, client, auto_sync_enabled, handlers, httpVars, plugVars, toolVars>>

\* Lines 94-98: raise without client, return when is_syncing is set.
sync_enter(th) ==
    /\ sync[th].pc = "call"
    /\ sync' = [sync EXCEPT ![th] =
                  IF ~client
                  THEN [@ EXCEPT !.pc = Returned(th),
                                 !.result = IF sync[th].use_selection
                                            THEN "Selection sync failed" ELSE "raised"]
                  ELSE IF is_syncing
                  THEN [@ EXCEPT !.pc = Returned(th), !.result = AlreadyInProgress]
                  ELSE [@ EXCEPT !.pc = "set"]]
    /\ UNCHANGED <<is_syncing, client, auto_sync_enabled, handlers, httpVars, plugVars, toolVars>>

\* Lines 100-101: self.is_syncing = True
sync_set(th) ==
    /\ sync[th].pc = "set"
    /\ is_syncing' = TRUE
    /\ sync' = [sync EXCEPT ![th].pc = "validate"]
    /\ UNCHANGED <<client, auto_sync_enabled, handlers, httpVars, plugVars, toolVars>>

\* A step after whose failure the sync goes on with the next step.
sync_step_on(th, step, next) ==
    /\ sync[th].pc = step
    /\ \E ok \in BOOLEAN :
          sync' = [sync EXCEPT ![th] =
                     [@ EXCEPT !.steps = Append(@, [step |-> step, success |-> ok]),
                               !.pc = next,
                               !.errors = @ \/ ~ok]]
    /\ UNCHANGED <<is_syncing, client, auto_sync_enabled, handlers, httpVars, plugVars, toolVars>>

\* One of the steps validate, extract, calculate: it succeeds and the next
\* step follows, or it raises and the result is returned (through finally).
sync_step(th, step, next) ==
    /\ sync[th].pc = step
    /\ \E ok \in (IF step = "extract" /\ ~doc.open THEN {FALSE} ELSE BOOLEAN) :
          sync' = [sync EXCEPT ![th] =
                     [@ EXCEPT !.steps = Append(@, [step |-> step, success |-> ok]),
                               !.extracted = IF step = "extract" /\ ok
                                             THEN extract_document_parameters(doc)
                                             ELSE @,
                               !.inputs = IF step = "calculate"
                                          THEN format_for_calcslive(sync[th].extracted)
                                          ELSE @,
                               !.contacted = @ \/ step \in {"validate", "calculate"},
                               !.pc = IF ok THEN next ELSE "finally",
                               !.errors = ~ok,
                               !.result = IF ok THEN "" ELSE "failed"]]
    /\ UNCHANGED <<is_syncing, client, auto_sync_enabled, handlers, httpVars, plugVars, toolVars>>

sync_validate(th) == sync_step(th, "validate", "extract")
sync_extract(th) == sync_step(th, "extract", "calculate")
sync_calculate(th) ==
    sync_step(th, "calculate", IF sync[th].update_model THEN "update" ELSE "complete")

\* Step 4: the model is updated; an exception is recorded in 'errors'.
sync_update(th) ==
    /\ sync[th].pc = "update"
    /\ \E ok \in BOOLEAN :
          sync' = [sync EXCEPT ![th] =
                     [@ EXCEPT !.steps = Append(@, [step |-> "update", success |-> ok]),
                               !.pc = "complete",
                               !.errors = ~ok]]
    /\ UNCHANGED <<is_syncing, client, auto_sync_enabled, handlers, httpVars, plugVars, toolVars>>

\* Lines 194-207
sync_complete(th) ==
    /\ sync[th].pc = "complete"
    /\ sync' = [sync EXCEPT ![th] =
                  [@ EXCEPT !.pc = "finally",
                            !.result = IF sync[th].errors THEN "failed" ELSE "success"]]
    /\ UNCHANGED <<is_syncing, client, auto_sync_enabled, handlers, httpVars, plugVars, toolVars>>

\* finally: self.is_syncing = False, and the call returns
sync_finally(th) ==
    /\ sync[th].pc = "finally"
    /\ is_syncing' = FALSE
    /\ sync' = [sync EXCEPT ![th].pc = Returned(th)]
    /\ UNCHANGED <<client, auto_sync_enabled, handlers, httpVars, plugVars, toolVars>>

\* enable_auto_sync starts the worker (here: when no worker is running)
enable_auto_sync ==
    /\ sync["worker"].pc = "off"
    /\ auto_sync_enabled' = TRUE
    /\ sync' = [sync EXCEPT !["worker"].pc = "loop"]
    /\ UNCHANGED <<is_syncing, client, handlers, httpVars, plugVars, toolVars>>

disable_auto_sync ==
    /\ auto_sync_enabled
    /\ auto_sync_enabled' = FALSE
    /\ UNCHANGED <<is_syncing, sync, client, handlers, httpVars, plugVars, toolVars>>

\* while self.auto_sync_enabled:
worker_loop ==
    /\ sync["worker"].pc = "loop"
    /\ sync' = [sync EXCEPT !["worker"].pc =
                  IF auto_sync_enabled THEN "check" ELSE "off"]
    /\ UNCHANGED <<is_syncing, client, auto_sync_enabled, handlers, httpVars, plugVars, toolVars>>

\* if not self.is_syncing: sync_with_calcslive(article_id, {'update_model': True})
worker_check ==
    /\ sync["worker"].pc = "check"
    /\ sync' = [sync EXCEPT !["worker"] =
                  IF ~is_syncing THEN SyncState("call", "", <<>>, TRUE, FALSE)
                  ELSE [@ EXCEPT !.pc = "sleep"]]
    /\ UNCHANGED <<is_syncing, client, auto_sync_enabled, handlers, httpVars, plugVars, toolVars>>

\* The result is counted; after repeated errors the worker disables
\* auto-sync and ends (the count itself is not modelled).
worker_after ==
    /\ sync["worker"].pc = "after"
    /\ \/ /\ sync' = [sync EXCEPT !["worker"].pc = "sleep"]
          /\ UNCHANGED auto_sync_enabled
       \/ /\ sync["worker"].result # "success"
          /\ sync' = [sync EXCEPT !["worker"].pc = "off"]
          /\ auto_sync_enabled' = FALSE
    /\ UNCHANGED <<is_syncing, client, handlers, httpVars, plugVars, toolVars>>

\* time.sleep(self.auto_sync_interval)
worker_sleep ==
    /\ sync["worker"].pc = "sleep"
    /\ sync' = [sync EXCEPT !["worker"].pc = "loop"]
    /\ UNCHANGED <<is_syncing, client, auto_sync_enabled, handlers, httpVars, plugVars, toolVars>>

(***************************************************************************)
(* ConfigManager: the list of recent articles.  An entry is the dict with  *)
(* 'id', 'title' and 'last_used'.                                          *)
(***************************************************************************)
RecentLimit == 10

Entry(id, title, last_used) == [id |-> id, title |-> title, last_used |-> last_used]

\* A filter that drops nothing.
WithoutArticle_none(recent, article_id) == recent

\* [item for item in recent if item.get('id') != article_id]
WithoutArticle(recent, article_id) ==
    SelectSeq(recent, LAMBDA item : item.id # article_id)

\* recent[:10]
KeepRecent(recent) == SubSeq(recent, 1, Min({Len(recent), RecentLimit}))

NoCall == [op |-> "", id |-> "", raised |-> FALSE]

\* FreeCAD.now() is FreeCAD's: it gives the time, or it raises, and then
\* the list is as it was.
add_recent_article(article_id, title) ==
    /\ now < RecentLimit + 1 + MaxCalls
    /\ \/ /\ recent_articles' =
               KeepRecent(<<Entry(article_id,
                                  IF title # "" THEN title ELSE article_id, now)>>
                          \o WithoutArticle(recent_articles, article_id))
          /\ config_call' = [op |-> "add", id |-> article_id, raised |-> FALSE]
       \/ /\ recent_articles' = recent_articles
          /\ config_call' = [op |-> "add", id |-> article_id, raised |-> TRUE]
    /\ now' = now + 1
    /\ UNCHANGED <<mapper, handlers, httpVars, plugVars, syncVars>>

remove_recent_article(article_id) ==
    /\ now < RecentLimit + 1 + MaxCalls
    /\ recent_articles' = WithoutArticle(recent_articles, article_id)
    /\ config_call' = [op |-> "remove", id |-> article_id, raised |-> FALSE]
    /\ now' = now + 1
    /\ UNCHANGED <<mapper, handlers, httpVars, plugVars, syncVars>>

\* The articles of the calls: the first, one in the middle and the last of
\* a full list, and two that are not in it.
ArticleIds == {"a01", "a05", "a10", "a11", "a12"}
Titles == {"", "Beam"}

\* A list as an earlier session saved it: n articles, the first used last
StoredArticles(n) ==
    [k \in 1..n |->
        Entry(<<"a01", "a02", "a03", "a04", "a05", "a06", "a07", "a08", "a09",
                "a10">>[k], "saved", RecentLimit + 1 - k)]

(***************************************************************************)
(* UnitMapper.  The tables are dicts, written here as their items in       *)
(* order; ^2, ^3 and (deg) stand for the superscripts and the degree sign. *)
(***************************************************************************)
\* A table in which two FreeCAD units map to one CalcsLive unit.
FREECAD_TO_CALCSLIVE_clash ==
    <<<<"mm", "mm">>, <<"cm", "cm">>, <<"m", "m">>, <<"in", "in">>,
      <<"ft", "ft">>, <<"mm^2", "mm^2">>, <<"cm^2", "cm^2">>, <<"m^2",
      "m^2">>, <<"in^2", "in^2">>, <<"ft^2", "ft^2">>, <<"mm^3",
      "mm^3">>, <<"cm^3", "cm^3">>, <<"m^3", "m^3">>, <<"in^3",
      "in^3">>, <<"ft^3", "ft^3">>, <<"l", "L">>, <<"deg", "(deg)">>,
      <<"rad", "rad">>, <<"g", "g">>, <<"kg", "kg">>, <<"lb", "lbf">>,
      <<"N", "N">>, <<"kN", "kN">>, <<"lbf", "lbf">>, <<"Pa", "Pa">>,
      <<"kPa", "kPa">>, <<"MPa", "MPa">>, <<"bar", "bar">>, <<"psi",
      "psi">>, <<"s", "s">>, <<"min", "min">>, <<"h", "h">>,
      <<"K", "K">>, <<"(deg)C", "(deg)C">>, <<"(deg)F", "(deg)F">>>>

FREECAD_TO_CALCSLIVE ==
    <<<<"mm", "mm">>, <<"cm", "cm">>, <<"m", "m">>, <<"in", "in">>,
      <<"ft", "ft">>, <<"mm^2", "mm^2">>, <<"cm^2", "cm^2">>, <<"m^2",
      "m^2">>, <<"in^2", "in^2">>, <<"ft^2", "ft^2">>, <<"mm^3",
      "mm^3">>, <<"cm^3", "cm^3">>, <<"m^3", "m^3">>, <<"in^3",
      "in^3">>, <<"ft^3", "ft^3">>, <<"l", "L">>, <<"deg", "(deg)">>,
      <<"rad", "rad">>, <<"g", "g">>, <<"kg", "kg">>, <<"lb", "lbm">>,
      <<"N", "N">>, <<"kN", "kN">>, <<"lbf", "lbf">>, <<"Pa", "Pa">>,
      <<"kPa", "kPa">>, <<"MPa", "MPa">>, <<"bar", "bar">>, <<"psi",
      "psi">>, <<"s", "s">>, <<"min", "min">>, <<"h", "h">>,
      <<"K", "K">>, <<"(deg)C", "(deg)C">>, <<"(deg)F", "(deg)F">>>>

\* dict semantics: the item written last for a key is the one found
HasKey(items, key) == \E i \in 1..Len(items) : items[i][1] = key
GetItem(items, key) ==
    items[CHOOSE i \in 1..Len(items) :
             /\ items[i][1] = key
             /\ \A j \in (i + 1)..Len(items) : items[j][1] # key][2]

\* {v: k for k, v in FREECAD_TO_CALCSLIVE.items()}, then update({...})
CALCSLIVE_TO_FREECAD ==
    [i \in 1..Len(FREECAD_TO_CALCSLIVE) |->
        <<FREECAD_TO_CALCSLIVE[i][2], FREECAD_TO_CALCSLIVE[i][1]>>]
    \o <<<<"L", "l">>, <<"(deg)", "deg">>, <<"lbm", "lb">>>>

freecad_to_calcslive(freecad_unit) ==
    IF HasKey(FREECAD_TO_CALCSLIVE, freecad_unit)
    THEN GetItem(FREECAD_TO_CALCSLIVE, freecad_unit)
    ELSE freecad_unit

calcslive_to_freecad(calcslive_unit) ==
    IF HasKey(CALCSLIVE_TO_FREECAD, calcslive_unit)
    THEN GetItem(CALCSLIVE_TO_FREECAD, calcslive_unit)
    ELSE calcslive_unit

\* The loop of validate_mapping over the items of FREECAD_TO_CALCSLIVE,
\* from the i-th item on
RECURSIVE ValidateLoop(_, _)
ValidateLoop(i, results) ==
    IF i > Len(FREECAD_TO_CALCSLIVE) THEN results
    ELSE ValidateLoop(i + 1,
           IF ~HasKey(CALCSLIVE_TO_FREECAD, FREECAD_TO_CALCSLIVE[i][2])
           THEN results
           ELSE IF GetItem(CALCSLIVE_TO_FREECAD, FREECAD_TO_CALCSLIVE[i][2])
                     = FREECAD_TO_CALCSLIVE[i][1]
           THEN [results EXCEPT !.bidirectional_mappings = @ + 1]
           ELSE [results EXCEPT !.valid = FALSE,
                                !.issues = Append(@, FREECAD_TO_CALCSLIVE[i][1])])

validate_mapping ==
    ValidateLoop(1, [valid |-> TRUE, issues |-> <<>>, bidirectional_mappings |-> 0])

NoValidation == [valid |-> FALSE, issues |-> <<>>, bidirectional_mappings |-> 0 - 1]

\* The FreeCAD units of the table, and units that are in no table or only in
\* the CalcsLive one
TableUnits == {FREECAD_TO_CALCSLIVE[i][1] : i \in 1..Len(FREECAD_TO_CALCSLIVE)}
TestUnits == TableUnits \cup {"furlong", "L", "(deg)", "lbm"}

Mapper(pc, fc_unit, cl_unit, fc_back, validation) ==
    [pc |-> pc, fc_unit |-> fc_unit, cl_unit |-> cl_unit, fc_back |-> fc_back,
     validation |-> validation]

\* test_unit_mapper, one call after the other
test_case ==
    /\ mapper.pc \in {"idle", "validated"}
    /\ \E fc_unit \in TestUnits :
          mapper' = Mapper("case", fc_unit, "", "", NoValidation)
    /\ UNCHANGED <<configVars, handlers, httpVars, plugVars, syncVars>>

test_freecad_to_calcslive ==
    /\ mapper.pc = "case"
    /\ mapper' = [mapper EXCEPT !.pc = "mapped",
                                !.cl_unit = freecad_to_calcslive(mapper.fc_unit)]
    /\ UNCHANGED <<configVars, handlers, httpVars, plugVars, syncVars>>

test_calcslive_to_freecad ==
    /\ mapper.pc = "mapped"
    /\ mapper' = [mapper EXCEPT !.pc = "back",
                                !.fc_back = calcslive_to_freecad(mapper.cl_unit)]
    /\ UNCHANGED <<configVars, handlers, httpVars, plugVars, syncVars>>

test_validate_mapping ==
    /\ mapper.pc = "back"
    /\ mapper' = [mapper EXCEPT !.pc = "validated", !.validation = validate_mapping]
    /\ UNCHANGED <<configVars, handlers, httpVars, plugVars, syncVars>>

(***************************************************************************)
(* Initial states and specifications.                                      *)
(***************************************************************************)
ModelDocument == Document("Model", <<SheetObject, OtherVarSet, PQsVarSet, SecondPQsVarSet>>)

InitHttpVars ==
    /\ last = NoLast
    /\ lastStored = NoData
    /\ lastMapOK = NoData
    /\ handlers = [h \in HandlerIds |-> FreeHandler]

\* Nothing plugged in yet
InitUnplugged ==
    /\ threads = [t \in ThreadIds |-> "new"]
    /\ server_thread = NoThread
    /\ httpd = NoThread
    /\ servers = [t \in ThreadIds |-> NewServer]
    /\ caller = Idle("", "")

\* After plug_in, with the first thread in serve_forever
InitServing ==
    /\ threads = [t \in ThreadIds |-> IF t = 1 THEN "serving" ELSE "new"]
    /\ server_thread = 1
    /\ httpd = 1
    /\ servers = [t \in ThreadIds |->
                    IF t = 1 THEN [NewServer EXCEPT !.open = TRUE] ELSE NewServer]
    /\ port = 1
    /\ caller = Idle("plug_in", "True")

\* A SyncEngine after __init__ and initialize()
InitSync ==
    /\ is_syncing = FALSE
    /\ client = TRUE
    /\ auto_sync_enabled = FALSE
    /\ sync = [th \in SyncThreads |->
                 SyncState(IF th = "ui" THEN "idle" ELSE "off", "", <<>>, TRUE, FALSE)]

\* The default configuration, and no unit mapped yet
InitConfig ==
    /\ recent_articles = <<>>
    /\ now = RecentLimit + 1
    /\ config_call = NoCall

InitMapper == mapper = Mapper("idle", "", "", "", NoValidation)

\* The requests served one after the other, on any of the documents.
Init == doc \in Documents /\ InitHttpVars /\ InitServing /\ InitSync
        /\ InitConfig /\ InitMapper
Next == Serve \/ Finish
Spec == Init /\ [][Next]_vars

\* The handler threads of a serving ThreadingHTTPServer.
ConcRequests ==
    {Request("GET", "/calcslive/export", NoBody),
     Request("GET", "/calcslive/mapping", NoBody),
     Request("POST", "/calcslive/mapping", [valid |-> TRUE, data |-> D1]),
     Request("POST", "/calcslive/mapping", [valid |-> TRUE, data |-> D2]),
     Request("POST", "/calcslive/import",
             [valid |-> TRUE, data |-> Data("object", TRUE, <<U_L, U_Map>>, "true", "")])}

NextThreads ==
    \/ \E t \in ThreadIds : Accept(t)
    \/ \E h \in HandlerIds, req \in ConcRequests : Execute(h, req)
    \/ \E h \in HandlerIds : Respond(h)
SpecThreads == Init /\ [][NextThreads]_vars

\* plug_in and unplug called one after the other by one thread, the
\* threads they start, and requests arriving at whoever serves.
ProbeRequests == {Request("GET", "/calcslive/status", NoBody)}

InitPlug ==
    /\ doc = ModelDocument
    /\ InitHttpVars
    /\ InitUnplugged
    /\ port \in {0, OtherProcess}
    /\ InitSync
    /\ InitConfig
    /\ InitMapper

NextPlug ==
    \/ plug_in
    \/ unplug_begin
    \/ unplug_server_close
    \/ unplug_clear
    \/ unplug_check_thread
    \/ unplug_join_returns
    \/ \E t \in ThreadIds : run_server_bind(t)
    \/ \E t \in ThreadIds : run_server_serve(t)
    \/ \E t \in ThreadIds : serve_forever_returns(t)
    \/ \E t \in ThreadIds : run_server_returns(t)
    \/ \E t \in ThreadIds : Accept(t)
    \/ \E h \in HandlerIds, req \in ProbeRequests : Execute(h, req)
    \/ \E h \in HandlerIds : Respond(h)
SpecPlug == InitPlug /\ [][NextPlug]_vars

\* The UI thread and the auto-sync worker on one SyncEngine.
InitSyncEngine ==
    /\ doc = ModelDocument
    /\ InitHttpVars
    /\ InitUnplugged
    /\ port = 0
    /\ InitSync
    /\ InitConfig
    /\ InitMapper

NextSync ==
    \/ ui_activate
    \/ sync_selection_with_calcslive
    \/ enable_auto_sync
    \/ disable_auto_sync
    \/ worker_loop
    \/ worker_check
    \/ worker_after
    \/ worker_sleep
    \/ \E th \in SyncThreads : sync_enter(th)
    \/ \E th \in SyncThreads : sync_set(th)
    \/ \E th \in SyncThreads : sync_validate(th)
    \/ \E th \in SyncThreads : sync_extract(th)
    \/ \E th \in SyncThreads : sync_calculate(th)
    \/ \E th \in SyncThreads : sync_update(th)
    \/ \E th \in SyncThreads : sync_complete(th)
    \/ \E th \in SyncThreads : sync_finally(th)
SpecSync == InitSyncEngine /\ [][NextSync]_vars

\* The recent articles: the default configuration or a list saved by an
\* earlier session, then add_recent_article and remove_recent_article calls.
InitRecent ==
    /\ doc = ModelDocument
    /\ InitHttpVars
    /\ InitUnplugged
    /\ port = 0
    /\ InitSync
    /\ InitMapper
    /\ recent_articles \in {<<>>, StoredArticles(RecentLimit - 1),
                            StoredArticles(RecentLimit)}
    /\ now = RecentLimit + 1
    /\ config_call = NoCall

NextRecent ==
    \/ \E article_id \in ArticleIds, title \in Titles :
          add_recent_article(article_id, title)
    \/ \E article_id \in ArticleIds : remove_recent_article(article_id)
SpecRecent == InitRecent /\ [][NextRecent]_vars

\* test_unit_mapper on the units of the table and on others
InitUnits ==
    /\ doc = ModelDocument
    /\ InitHttpVars
    /\ InitUnplugged
    /\ port = 0
    /\ InitSync
    /\ InitConfig
    /\ InitMapper

NextUnits ==
    \/ test_case
    \/ test_freecad_to_calcslive
    \/ test_calcslive_to_freecad
    \/ test_validate_mapping
SpecUnits == InitUnits /\ [][NextUnits]_vars

(***************************************************************************)
(* The request executed last, as the claims speak of it.                   *)
(***************************************************************************)
LastRoute == Route(last.req.method, last.req.path)
LastData == ParseBody(last.req.body)
LastUpdates == IF LastData.hasUpdates THEN LastData.updates ELSE <<>>
LastCode == last.out.resp.code

\* An import whose allowOverrideExpression is absent or false
ImportWithoutOverride ==
    /\ LastRoute = "import"
    /\ LastData.kind = "object"
    /\ LastData.allow \in {"absent", "false"}

\* The places <<object, property>> of the properties of d that have a
\* driving expression
ExpressionDriven(d) ==
    {<<i, p>> \in (1..Len(d.Objects)) \X {"Base_L", "Base_V", "Base_W", "Base_H",
                                          "Count", "Note", "Ref", "Length", "A1",
                                          "CalcsLiveMappings"} :
        /\ p \in DOMAIN d.Objects[i].props
        /\ d.Objects[i].props[p].expr # NoExpr}

\* Update k names property p of object i, in either path format
Names(k, i, p) ==
    /\ LastUpdates[k].isDict
    /\ UpdatePath(LastUpdates[k]) \in
          {<<last.before.Objects[i].Name, ":", last.before.Objects[i].Label, "/", p>>,
           <<last.before.Objects[i].Name, "/", p>>}

InSeq(x, seq) == \E n \in 1..Len(seq) : seq[n] = x

ValueIn(d, i, p) == d.Objects[i].props[p].val

(***************************************************************************)
(* C1 as stated: in an import without allowOverrideExpression, an update   *)
(* naming an expression-driven property is reported in 'errors' and the    *)
(* property has the value it had before the request.                       *)
(***************************************************************************)
C1_KeepsValue ==
    ImportWithoutOverride =>
        \A ip \in ExpressionDriven(last.before) :
            \A k \in 1..Len(LastUpdates) :
                Names(k, ip[1], ip[2]) =>
                    /\ InSeq(k, last.out.resp.errors)
                    /\ ValueIn(doc, ip[1], ip[2]) = ValueIn(last.before, ip[1], ip[2])

(***************************************************************************)
(* C1, amended: in an import without allowOverrideExpression no            *)
(* expression-driven property is assigned.  When the import is answered    *)
(* 200, every update naming such a property is in 'errors' and not in      *)
(* 'applied', and the property holds what its expression gives after the   *)
(* recompute that ends the request; when the import is answered 500 the    *)
(* property has the value it had before.                                   *)
(***************************************************************************)
C1_NeverAssigned ==
    ImportWithoutOverride =>
        \A ip \in ExpressionDriven(last.before) :
            /\ <<last.before.Objects[ip[1]].Name, ip[2]>> \notin last.out.written
            /\ ValueIn(doc, ip[1], ip[2]) =
                  IF LastCode = 200
                  THEN ValueIn(doc, ip[1], doc.Objects[ip[1]].props[ip[2]].expr)
                  ELSE ValueIn(last.before, ip[1], ip[2])
            /\ \A k \in 1..Len(LastUpdates) :
                  (LastCode = 200 /\ Names(k, ip[1], ip[2])) =>
                      /\ InSeq(k, last.out.resp.errors)
                      /\ ~InSeq(k, last.out.resp.applied)

\* An import refused to write an expression-driven property, whose value
\* the recompute changed all the same.
C1_Witness ==
    /\ ImportWithoutOverride
    /\ LastCode = 200
    /\ \E ip \in ExpressionDriven(last.before) :
          /\ \E k \in 1..Len(LastUpdates) :
                Names(k, ip[1], ip[2]) /\ InSeq(k, last.out.resp.errors)
          /\ ValueIn(doc, ip[1], ip[2]) # ValueIn(last.before, ip[1], ip[2])

NoVarSet(d) ==
    ~d.open \/ ~\E i \in 1..Len(d.Objects) :
                  d.Objects[i].TypeId = "App::VarSet" /\ d.Objects[i].Label = "PQs"

ExactEndpoint(req) ==
    \/ /\ req.method = "GET"
       /\ req.path \in {"/calcslive/export", "/calcslive/mapping",
                         "/calcslive/clean-units", "/calcslive/status"}
    \/ /\ req.method = "POST"
       /\ req.path \in {"/calcslive/import", "/calcslive/mapping"}

IsPQs(obj) == obj.TypeId = "App::VarSet" /\ obj.Label = "PQs"

C5_ExportParams ==
    LastRoute = "export" =>
        LET d == last.before
            params == last.out.resp.params
        IN  IF NoVarSet(d) THEN params = <<>>
            ELSE \E i \in 1..Len(d.Objects) :
                   /\ IsPQs(d.Objects[i])
                   /\ \A j \in 1..(i - 1) : ~IsPQs(d.Objects[j])
                   /\ LET wanted == SelectSeq(d.Objects[i].PropertiesList,
                                              LAMBDA p : p \notin skip_props)
                      IN  /\ Len(params) = Len(wanted)
                          /\ \A n \in 1..Len(wanted) :
                                /\ params[n].name = wanted[n]
                                /\ params[n].path =
                                      <<d.Objects[i].Name, ":", "PQs", "/", wanted[n]>>

\* An export of the document with a sheet and two VarSets labelled "PQs",
\* after a mapping was saved
C5_Witness ==
    /\ LastRoute = "export"
    /\ Len(last.before.Objects) = 4
    /\ Len(last.out.resp.params) = 6
    /\ last.out.resp.params[6].name = "CalcsLiveMappings"

C7_TrueMeansServing ==
    (caller.pc = "idle" /\ caller.op = "plug_in") =>
        /\ caller.ret = "True" =>
              (server_thread # NoThread /\ threads[server_thread] # "failed")
        /\ port = OtherProcess => caller.ret = "False"

(***************************************************************************)
(* C8 as stated: after unplug returned True no server thread is alive, no  *)
(* request is being served and no server holds the port.                   *)
(***************************************************************************)
C8_UnplugStops ==
    (caller.pc = "idle" /\ caller.op = "unplug" /\ caller.ret = "True") =>
        /\ \A t \in ThreadIds : ~Alive(t)
        /\ InFlight = {}
        /\ port \notin ThreadIds

(***************************************************************************)
(* C9 as stated: at most one server thread is alive at a time.             *)
(***************************************************************************)
C9_OneServerThread == Cardinality({t \in ThreadIds : Alive(t)}) <= 1

(***************************************************************************)
(* C10 as stated: at most one execution of sync_with_calcslive is in       *)
(* progress at any time.                                                   *)
(***************************************************************************)
Syncing(th) ==
    sync[th].pc \in {"validate", "extract", "calculate", "update", "complete",
                     "finally"}

C10_OneSync == Cardinality({th \in SyncThreads : Syncing(th)}) <= 1

(***************************************************************************)
(* C11: a sync runs its steps in the order validate, extract, calculate,   *)
(* update; after a failure of validate, extract or calculate no further    *)
(* step runs (so the model is not updated) and the result is a failure;    *)
(* without update_model the update step never runs; a sync that succeeds   *)
(* has run validate, extract and calculate without failure.                *)
(***************************************************************************)
StepOrder == <<"validate", "extract", "calculate", "update">>

C12_SelectionOnly ==
    /\ (sync["ui"].use_selection
          /\ \E i \in 1..Len(sync["ui"].steps) : sync["ui"].steps[i].step = "calculate")
        => sync["ui"].inputs = format_for_calcslive(sync["ui"].selected_params)
    /\ sync["ui"].result = NoSelectedParameters =>
          (~sync["ui"].contacted /\ sync["ui"].steps = <<>>)

(***************************************************************************)
(* C13: the list of recent articles has at most 10 entries, no two with    *)
(* the same id, and the article used later stands before the one used      *)
(* earlier: an article just added is the first entry, once, and an article *)
(* just removed is not in the list.                                        *)
(***************************************************************************)
C13_RecentArticles ==
    /\ Len(recent_articles) <= 10
    /\ \A i, j \in 1..Len(recent_articles) :
          i < j => /\ recent_articles[i].id # recent_articles[j].id
                   /\ recent_articles[i].last_used > recent_articles[j].last_used
    /\ (config_call.op = "add" /\ ~config_call.raised) =>
          /\ recent_articles[1].id = config_call.id
          /\ recent_articles[1].last_used = now - 1
    /\ config_call.op = "remove" =>
          \A i \in 1..Len(recent_articles) : recent_articles[i].id # config_call.id

\* A full list to which an article in its middle was added again and then
\* a new one: the one used longest ago is gone
C13_Witness ==
    /\ Len(recent_articles) = 10
    /\ config_call = [op |-> "add", id |-> "a11", raised |-> FALSE]
    /\ recent_articles[2].id = "a05"
    /\ \A i \in 1..Len(recent_articles) : recent_articles[i].id # "a10"

(***************************************************************************)
(* C14: a FreeCAD unit of the mapping table mapped to CalcsLive and back   *)
(* is the same unit, and validate_mapping finds the tables valid, without  *)
(* issue, every unit of the table mapping back to itself.                  *)
(***************************************************************************)
C14_RoundTrip ==
    /\ (mapper.pc \in {"back", "validated"}
          /\ \E i \in 1..Len(FREECAD_TO_CALCSLIVE) :
                FREECAD_TO_CALCSLIVE[i][1] = mapper.fc_unit)
        => mapper.fc_back = mapper.fc_unit
    /\ mapper.pc = "validated" =>
          /\ mapper.validation.valid
          /\ mapper.validation.issues = <<>>
          /\ mapper.validation.bidirectional_mappings = Len(FREECAD_TO_CALCSLIVE)

\* A unit the two systems write differently, mapped there and back, and
\* the tables validated
C14_Witness ==
    /\ mapper.pc = "validated"
    /\ mapper.fc_unit = "lb"
    /\ mapper.cl_unit = "lbm"
    /\ mapper.fc_back = "lb"
    /\ mapper.validation.valid

====
